---- MODULE Spec2Model ----
(***************************************************************************)
(* Model of the fixity-core integer codec and tag/value splitter           *)
(* (fixity-core/src/wire_format.rs).  Bytes are their ASCII codes, slices  *)
(* are sequences of bytes, and every parser returns an IResult record:     *)
(* [ok |-> TRUE, rest, val] or [ok |-> FALSE, kind].                       *)
(***************************************************************************)
EXTENDS Integers, Sequences, FiniteSets

VARIABLES input, value, buf, overflow_checks, pc, enc_op, enc, op, delimiter, len, res,
          pos, tags

vars == <<input, value, buf, overflow_checks, pc, enc_op, enc, op, delimiter, len, res,
          pos, tags>>

(***************************************************************************)
(* Bounds of the model.                                                    *)
(***************************************************************************)
\* longest buffer handed to itos / u_itos
MaxBuf == 5
\* longest input handed to atoi / u_atoi
MaxLen == 4
\* longest input handed to tagnum
MaxTagLen == 6
\* longest tail that follows the tag text in an input of the splitters
MaxRest == 4
\* largest len argument of data_tag_delimited
MaxDataLen == 3
\* most '0' bytes put in front of a digit run
MaxZeros == 3
\* longest value slice handed to a typed field
MaxFieldLen == 4
\* longest string or byte-slice value
MaxSliceLen == 3
\* most pieces of a buffer that is split field after field
MaxPieces == 3

(***************************************************************************)
(* Bytes.                                                                  *)
(***************************************************************************)
SOH == 1

Minus == 45

Equals == 61

Pipe == 124

LetterF == 70

ASCII_DIGITS == <<48, 49, 50, 51, 52, 53, 54, 55, 56, 57>>

is_digit(c) == c >= 48 /\ c <= 57

(***************************************************************************)
(* Integer types the generic functions are instantiated at.                *)
(***************************************************************************)
I8 == [min |-> -(2^7), max |-> 2^7 - 1]

U8 == [min |-> 0, max |-> 2^8 - 1]

U16 == [min |-> 0, max |-> 2^16 - 1]

\* i64 and u64, cut to the integers TLC evaluates: no value slice of the
\* model is long enough to reach the bounds of either range
I64 == [min |-> -2147483647, max |-> 2147483647]

U64 == [min |-> 0, max |-> 2147483647]

\* two's complement wrap of a result into T (overflow checks disabled)
Wrap(a, T) == ((a - T.min) % (T.max - T.min + 1)) + T.min

\* checked_mul / checked_add: some = FALSE stands for None
checked_mul(a, b, T) ==
    IF a * b >= T.min /\ a * b <= T.max
      THEN [some |-> TRUE, v |-> a * b]
      ELSE [some |-> FALSE, v |-> 0]

\* mutant: the sum wraps instead of being checked
checked_add_Wrapping(a, b, T) == [some |-> TRUE, v |-> Wrap(a + b, T)]

checked_add(a, b, T) ==
    IF a + b >= T.min /\ a + b <= T.max
      THEN [some |-> TRUE, v |-> a + b]
      ELSE [some |-> FALSE, v |-> 0]

\* Rust's / and % truncate toward zero
RustDiv(a, b) == IF a >= 0 THEN a \div b ELSE -((-a) \div b)

RustRem(a, b) == a - b * RustDiv(a, b)

(***************************************************************************)
(* IResult and the nom combinators the source composes.                    *)
(***************************************************************************)
ParseOk(rest, v) == [ok |-> TRUE, rest |-> rest, val |-> v]

ParseErr(kind) == [ok |-> FALSE, kind |-> kind]

\* the call does not return: arithmetic overflow under overflow checks, an
\* index out of bounds, an unwrap of None, unimplemented!()
ParsePanic == [ok |-> FALSE, kind |-> "Panic"]

IsErr(r) == ~r.ok /\ r.kind # "Panic"

IsPanic(r) == ~r.ok /\ r.kind = "Panic"

Drop(s, n) == SubSeq(s, n + 1, Len(s))

Take(s, n) == SubSeq(s, 1, n)

\* decimal text of a natural number, most significant digit first
RECURSIVE NatText(_)
NatText(n) == IF n < 10 THEN <<48 + n>> ELSE NatText(n \div 10) \o <<48 + (n % 10)>>

\* length of the longest prefix of s whose bytes all satisfy "is in set S"
RECURSIVE PrefixIn(_, _)
PrefixIn(s, S) ==
    IF s = <<>> \/ Head(s) \notin S THEN 0 ELSE 1 + PrefixIn(Tail(s), S)

DigitBytes == 48..57

\* mutant: digit0, which accepts the empty run
digit1_AllowEmpty(i) ==
    LET n == PrefixIn(i, DigitBytes)
    IN ParseOk(Drop(i, n), Take(i, n))

\* nom::character::complete::digit1
digit1(i) ==
    LET n == PrefixIn(i, DigitBytes)
    IN IF n = 0 THEN ParseErr("Digit") ELSE ParseOk(Drop(i, n), Take(i, n))

\* nom::bytes::complete::is_a
is_a(S, i) ==
    LET n == PrefixIn(i, S)
    IN IF n = 0 THEN ParseErr("IsA") ELSE ParseOk(Drop(i, n), Take(i, n))

\* nom::bytes::complete::take
take(n, i) ==
    IF Len(i) < n THEN ParseErr("Eof") ELSE ParseOk(Drop(i, n), Take(i, n))

\* mutant: take_till, which accepts the empty value
take_till1_AllowEmpty(d, i) ==
    LET n == PrefixIn(i, (0..255) \ {d})
    IN ParseOk(Drop(i, n), Take(i, n))

\* nom::bytes::complete::take_till1 with the predicate c == d
take_till1(d, i) ==
    LET n == PrefixIn(i, (0..255) \ {d})
    IN IF n = 0 THEN ParseErr("TakeTill1") ELSE ParseOk(Drop(i, n), Take(i, n))

\* mutant: the first byte is read without take(1_u8) in front of it
byte_Unguarded(b, i) ==
    IF Len(i) < 1 THEN ParsePanic
    ELSE IF i[1] # b THEN ParseErr("Verify")
    ELSE ParseOk(Tail(i), i[1])

\* verify(take(1_u8), |i| i[0] == b): i[0] panics on an empty slice
byte(b, i) ==
    LET t == take(1, i)
    IN IF ~t.ok THEN t
       ELSE IF Len(t.val) < 1 THEN ParsePanic
       ELSE IF t.val[1] # b THEN ParseErr("Verify")
       ELSE ParseOk(t.rest, t.val[1])

(***************************************************************************)
(* atoi / u_atoi                                                           *)
(***************************************************************************)
\* T::from_u8(x): None when x is not representable in T
from_u8(x, T) ==
    IF x <= T.max THEN [some |-> TRUE, v |-> x] ELSE [some |-> FALSE, v |-> 0]

\* *d - b'0' in u8: below '0' the subtraction overflows, which panics under
\* overflow checks and wraps without them
digit_of(d) ==
    IF d >= 48 THEN [some |-> TRUE, v |-> d - 48]
    ELSE IF overflow_checks THEN [some |-> FALSE, v |-> 0]
    ELSE [some |-> TRUE, v |-> Wrap(d - 48, U8)]

FoldSome(v) == [some |-> TRUE, panic |-> FALSE, v |-> v]

FoldNone == [some |-> FALSE, panic |-> FALSE, v |-> 0]

FoldPanic == [some |-> FALSE, panic |-> TRUE, v |-> 0]

\* the closure signed_atoi: fold of the digits, negative digits under a sign
RECURSIVE signed_atoi(_, _, _, _)
signed_atoi(acc, sign, digits, T) ==
    IF digits = <<>> THEN FoldSome(acc)
    ELSE LET ten == from_u8(10, T)
             m == checked_mul(acc, 10, T)
             b == digit_of(Head(digits))
             d == from_u8(b.v, T)
             a == checked_add(m.v, IF sign THEN -d.v ELSE d.v, T)
         IN IF ~ten.some THEN FoldPanic
            ELSE IF ~m.some THEN FoldNone
            ELSE IF ~b.some \/ ~d.some THEN FoldPanic
            ELSE IF ~a.some THEN FoldNone
            ELSE signed_atoi(a.v, sign, Tail(digits), T)

\* map_res: Ok of the closure becomes the value, Err becomes ErrorKind::MapRes
map_res(rest, v) ==
    IF v.panic THEN ParsePanic
    ELSE IF v.some THEN ParseOk(rest, v.v)
    ELSE ParseErr("MapRes")

atoi(i, T) ==
    LET s == byte(Minus, i)
        sign == s.ok
        r == IF sign THEN s.rest ELSE i
        dg == digit1(r)
    IN IF IsPanic(s) THEN s
       ELSE IF ~dg.ok THEN dg
       ELSE map_res(dg.rest, signed_atoi(0, sign, dg.val, T))

\* the closure unsigned_atoi
RECURSIVE unsigned_atoi(_, _, _)
unsigned_atoi(acc, digits, T) ==
    IF digits = <<>> THEN FoldSome(acc)
    ELSE LET ten == from_u8(10, T)
             m == checked_mul(acc, 10, T)
             b == digit_of(Head(digits))
             d == from_u8(b.v, T)
             a == checked_add(m.v, d.v, T)
         IN IF ~ten.some THEN FoldPanic
            ELSE IF ~m.some THEN FoldNone
            ELSE IF ~b.some \/ ~d.some THEN FoldPanic
            ELSE IF ~a.some THEN FoldNone
            ELSE unsigned_atoi(a.v, Tail(digits), T)

\* mutant: overflow is judged by the number of digits
u_atoi_DigitCap(i, T) ==
    LET dg == digit1(i)
    IN IF ~dg.ok THEN dg
       ELSE IF Len(dg.val) > Len(NatText(T.max)) THEN ParseErr("MapRes")
       ELSE map_res(dg.rest, unsigned_atoi(0, dg.val, T))

u_atoi(i, T) ==
    LET dg == digit1(i)
    IN IF ~dg.ok THEN dg
       ELSE map_res(dg.rest, unsigned_atoi(0, dg.val, T))

(***************************************************************************)
(* itos / u_itos.  The result is [kind, n, buf]: kind is "Some", "None"    *)
(* or "Panic"; buf is the buffer as the call leaves it.                    *)
(***************************************************************************)
EncSome(n, b) == [kind |-> "Some", n |-> n, buf |-> b]

EncNone(b) == [kind |-> "None", n |-> 0, buf |-> b]

EncPanic(b) == [kind |-> "Panic", n |-> 0, buf |-> b]

\* slice.swap(x, y), 0-based
swap(s, x, y) == [s EXCEPT ![x + 1] = s[y + 1], ![y + 1] = s[x + 1]]

RECURSIVE swap_loop(_, _, _)
swap_loop(s, x, y) ==
    IF x < y THEN swap_loop(swap(s, x, y), x + 1, y - 1) ELSE s

\* mutant: the right cursor starts one byte short
swap_outer_inner_OffByOne(slice) == swap_loop(slice, 0, Len(slice) - 2)

\* called on buf[..index] with index >= 1 only
swap_outer_inner(slice) == swap_loop(slice, 0, Len(slice) - 1)

\* the while loop of itos; index is 0-based.  (value % ten).to_usize() is None
\* for a negative remainder and the unwrap panics; buf[index] panics when
\* index is not below buf.len().
RECURSIVE itos_loop(_, _, _)
itos_loop(v, b, index) ==
    IF v = 0 THEN [kind |-> "Done", index |-> index, buf |-> b]
    ELSE LET c == RustRem(v, 10)
         IN IF c < 0 THEN [kind |-> "Panic", index |-> index, buf |-> b]
            ELSE IF index >= Len(b) THEN [kind |-> "Panic", index |-> index, buf |-> b]
            ELSE LET b2 == [b EXCEPT ![index + 1] = ASCII_DIGITS[c + 1]]
                 IN IF Len(b2) < index + 1
                      THEN [kind |-> "None", index |-> index + 1, buf |-> b2]
                      ELSE itos_loop(RustDiv(v, 10), b2, index + 1)

\* the while loop of u_itos
RECURSIVE u_itos_loop(_, _, _)
u_itos_loop(v, b, index) ==
    IF v = 0 THEN [kind |-> "Done", index |-> index, buf |-> b]
    ELSE LET c == v % 10
         IN IF index >= Len(b) THEN [kind |-> "Panic", index |-> index, buf |-> b]
            ELSE LET b2 == [b EXCEPT ![index + 1] = ASCII_DIGITS[c + 1]]
                 IN IF Len(b2) < index + 1
                      THEN [kind |-> "None", index |-> index + 1, buf |-> b2]
                      ELSE u_itos_loop(v \div 10, b2, index + 1)

\* swap the written prefix in place and report its length
finish(b, index) ==
    EncSome(index, swap_outer_inner(Take(b, index)) \o Drop(b, index))

\* mutant: the sign byte is written but not counted
itos_SignNotCounted(v, b, T, checks) ==
    IF Len(b) = 0 THEN EncNone(b)
    ELSE IF v = 0 THEN EncSome(1, [b EXCEPT ![1] = 48])
    ELSE LET sign == v < 0
             neg == v * (-1)
             overflow == sign /\ (neg > T.max)
             abs == IF sign THEN Wrap(neg, T) ELSE v
             l == itos_loop(abs, b, 0)
         IN IF overflow /\ checks THEN EncPanic(b)
            ELSE IF l.kind = "Panic" THEN EncPanic(l.buf)
            ELSE IF l.kind = "None" THEN EncNone(l.buf)
            ELSE IF ~sign THEN finish(l.buf, l.index)
            ELSE IF l.index >= Len(l.buf) THEN EncPanic(l.buf)
            ELSE finish([l.buf EXCEPT ![l.index + 1] = Minus], l.index)

itos(v, b, T, checks) ==
    IF Len(b) = 0 THEN EncNone(b)
    ELSE IF v = 0 THEN EncSome(1, [b EXCEPT ![1] = 48])
    ELSE LET sign == v < 0
             neg == v * (-1)
             overflow == sign /\ (neg > T.max)
             abs == IF sign THEN Wrap(neg, T) ELSE v
             l == itos_loop(abs, b, 0)
         IN IF overflow /\ checks THEN EncPanic(b)
            ELSE IF l.kind = "Panic" THEN EncPanic(l.buf)
            ELSE IF l.kind = "None" THEN EncNone(l.buf)
            ELSE IF ~sign THEN finish(l.buf, l.index)
            ELSE IF l.index >= Len(l.buf) THEN EncPanic(l.buf)
            ELSE finish([l.buf EXCEPT ![l.index + 1] = Minus], l.index + 1)

u_itos(v, b, T) ==
    IF Len(b) = 0 THEN EncNone(b)
    ELSE IF v = 0 THEN EncSome(1, [b EXCEPT ![1] = 48])
    ELSE LET l == u_itos_loop(v, b, 0)
         IN IF l.kind = "Panic" THEN EncPanic(l.buf)
            ELSE IF l.kind = "None" THEN EncNone(l.buf)
            ELSE finish(l.buf, l.index)

(***************************************************************************)
(* tagnum and the splitters                                                *)
(***************************************************************************)
\* mutant: the leading-zero check is left out
tagnum_AllowLeadingZero(i) == u_atoi(i, U16)

tagnum(i) ==
    LET z == is_a({48}, i)
    IN IF z.ok THEN ParseErr("Verify") ELSE u_atoi(i, U16)

RawTag(t, v) == [tag |-> t, value |-> v]

\* mutant: the delimiter after the value is looked at but stays in the
\* remaining input
tag_delimited_KeepDelimiter(d, i) ==
    LET t == tagnum(i)
        e == byte(Equals, t.rest)
        v == take_till1(d, e.rest)
        f == byte(d, v.rest)
    IN IF ~t.ok THEN t
       ELSE IF ~e.ok THEN e
       ELSE IF ~v.ok THEN v
       ELSE IF ~f.ok THEN f
       ELSE ParseOk(v.rest, RawTag(t.val, v.val))

tag_delimited(d, i) ==
    LET t == tagnum(i)
        e == byte(Equals, t.rest)
        v == take_till1(d, e.rest)
        f == byte(d, v.rest)
    IN IF ~t.ok THEN t
       ELSE IF ~e.ok THEN e
       ELSE IF ~v.ok THEN v
       ELSE IF ~f.ok THEN f
       ELSE ParseOk(f.rest, RawTag(t.val, v.val))

tag(payload) == tag_delimited(SOH, payload)

\* mutant: the delimiter after the value is not required
data_tag_delimited_NoDelimiter(d, n, i) ==
    LET t == tagnum(i)
        e == byte(Equals, t.rest)
        v == take(n, e.rest)
    IN IF ~t.ok THEN t
       ELSE IF ~e.ok THEN e
       ELSE IF ~v.ok THEN v
       ELSE ParseOk(v.rest, RawTag(t.val, v.val))

data_tag_delimited(d, n, i) ==
    LET t == tagnum(i)
        e == byte(Equals, t.rest)
        v == take(n, e.rest)
        f == byte(d, v.rest)
    IN IF ~t.ok THEN t
       ELSE IF ~e.ok THEN e
       ELSE IF ~v.ok THEN v
       ELSE IF ~f.ok THEN f
       ELSE ParseOk(f.rest, RawTag(t.val, v.val))

data_tag(payload, n) == data_tag_delimited(SOH, n, payload)

(***************************************************************************)
(* The older decoders (parsers.rs, wire_parser.rs).  Their arithmetic is   *)
(* unchecked: on overflow it panics under overflow checks and wraps        *)
(* without them.                                                           *)
(***************************************************************************)
\* parsers.rs and wire_parser.rs byte: Err::Error(from_char) unless the first
\* byte is b
old_byte(b, i) ==
    IF i # <<>> /\ i[1] = b THEN ParseOk(Tail(i), b) ELSE ParseErr("Char")

\* nom::bytes::streaming::take_till1(|b| !is_digit(b)): Incomplete when the
\* input ends before a byte that is not a digit
take_digits_streaming(i) ==
    LET n == PrefixIn(i, DigitBytes)
    IN IF n = Len(i) THEN ParseErr("Incomplete")
       ELSE IF n = 0 THEN ParseErr("TakeTill1")
       ELSE ParseOk(Drop(i, n), Take(i, n))

\* nom::bytes::complete::take_till1(|b| !is_digit(b))
take_digits(i) ==
    LET n == PrefixIn(i, DigitBytes)
    IN IF n = 0 THEN ParseErr("TakeTill1") ELSE ParseOk(Drop(i, n), Take(i, n))

\* an unchecked operation with the exact result x in the type T
unchecked(x, T) ==
    IF x >= T.min /\ x <= T.max THEN FoldSome(x)
    ELSE IF overflow_checks THEN FoldPanic
    ELSE FoldSome(Wrap(x, T))

\* for d in digits { value = value * 10; value = value + (d - b'0') }
RECURSIVE unchecked_fold(_, _, _)
unchecked_fold(acc, digits, T) ==
    IF digits = <<>> THEN FoldSome(acc)
    ELSE LET ten == from_u8(10, T)
             m == unchecked(acc * 10, T)
             b == digit_of(Head(digits))
             d == from_u8(b.v, T)
             a == unchecked(m.v + d.v, T)
         IN IF ~ten.some \/ m.panic THEN FoldPanic
            ELSE IF ~b.some \/ ~d.some THEN FoldPanic
            ELSE IF a.panic THEN FoldPanic
            ELSE unchecked_fold(a.v, Tail(digits), T)

\* parsers.rs atoi
parsers_atoi(i, T) ==
    LET s == old_byte(Minus, i)
        r == IF s.ok THEN s.rest ELSE i
        dg == take_digits_streaming(r)
        v == unchecked_fold(0, dg.val, T)
        neg == unchecked(-v.v, T)
    IN IF ~dg.ok THEN dg
       ELSE IF v.panic THEN ParsePanic
       ELSE IF ~s.ok THEN ParseOk(dg.rest, v.v)
       ELSE IF neg.panic THEN ParsePanic
       ELSE ParseOk(dg.rest, neg.v)

\* parsers.rs u_atoi
parsers_u_atoi(i, T) ==
    LET dg == take_digits_streaming(i)
        v == unchecked_fold(0, dg.val, T)
    IN IF ~dg.ok THEN dg
       ELSE IF v.panic THEN ParsePanic
       ELSE ParseOk(dg.rest, v.v)

\* wire_parser.rs atoi: value *= 10; value += *b as u16 - '0' as u16
wire_parser_atoi(slice) == unchecked_fold(0, slice, U16)

\* wire_parser.rs Tag
Tag(t, v) == [tag |-> t, value |-> v]

\* wire_parser.rs delimited
delimited(d, i) ==
    LET t == take_digits(i)
        e == old_byte(Equals, t.rest)
        v == take_till1(d, e.rest)
        f == old_byte(d, v.rest)
        n == wire_parser_atoi(t.val)
    IN IF ~t.ok THEN t
       ELSE IF ~e.ok THEN e
       ELSE IF ~v.ok THEN v
       ELSE IF ~f.ok THEN f
       ELSE IF n.panic THEN ParsePanic
       ELSE ParseOk(f.rest, Tag(n.v, v.val))

\* wire_parser.rs data_delimited
data_delimited(count, d, i) ==
    LET t == take_digits(i)
        e == old_byte(Equals, t.rest)
        v == take(count, e.rest)
        f == old_byte(d, v.rest)
        n == wire_parser_atoi(t.val)
    IN IF ~t.ok THEN t
       ELSE IF ~e.ok THEN e
       ELSE IF ~v.ok THEN v
       ELSE IF ~f.ok THEN f
       ELSE IF n.panic THEN ParsePanic
       ELSE ParseOk(f.rest, Tag(n.v, v.val))

(***************************************************************************)
(* Typed integer fields (data_types/int.rs).  A field result is            *)
(* [ok |-> TRUE, val] or [ok |-> FALSE, kind], kind a ParseError variant.  *)
(***************************************************************************)
FieldOk(v) == [ok |-> TRUE, val |-> v]

FieldErr(kind) == [ok |-> FALSE, kind |-> kind]

\* mutant: the remaining input is not looked at
all_consuming_Partial(r) == r

\* nom::combinator::all_consuming, applied to the result of the inner parser
all_consuming(r) ==
    IF r.ok /\ r.rest # <<>> THEN ParseErr("Eof") ELSE r

\* mutant: the lower bound of the day is off by one
verify_day_FromZero(r) ==
    IF r.ok /\ ~(0 <= r.val /\ r.val <= 31) THEN ParseErr("Verify") ELSE r

\* verify(u_atoi, |v| 1 <= *v && *v <= 31), applied to the result of u_atoi
verify_day(r) ==
    IF r.ok /\ ~(1 <= r.val /\ r.val <= 31) THEN ParseErr("Verify") ELSE r

\* .map(|(_, value)| value).or(Err(kind))
field_result(r, kind) ==
    IF IsPanic(r) THEN ParsePanic
    ELSE IF r.ok THEN FieldOk(r.val)
    ELSE FieldErr(kind)

IntField_parse(payload) ==
    field_result(all_consuming(atoi(payload, I64)), "Int")

UnsignedIntField_parse(payload) ==
    field_result(all_consuming(u_atoi(payload, U64)), "UnsignedInt")

\* mutant: the error kind of the unsigned field is reported
DayOfMonthField_parse_WrongKind(payload) ==
    field_result(all_consuming(verify_day(u_atoi(payload, U8))), "UnsignedInt")

DayOfMonthField_parse(payload) ==
    field_result(all_consuming(verify_day(u_atoi(payload, U8))), "DayOfMonth")

TagNumField_parse(payload) ==
    field_result(all_consuming(tagnum(payload)), "TagNum")

(***************************************************************************)
(* String and data values (data_types/string.rs, data_types/slice.rs).     *)
(***************************************************************************)
\* the body of the function is unimplemented!()
StringField_parse(payload) == ParsePanic

\* the body of the function is unimplemented!()
DataField_parse(payload) == ParsePanic

IsCont(b) == b >= 128 /\ b <= 191

\* core::str::from_utf8 succeeds: the bytes are well-formed UTF-8
RECURSIVE is_utf8(_)
is_utf8(s) ==
    IF s = <<>> THEN TRUE
    ELSE LET b == s[1]
         IN IF b < 128 THEN is_utf8(Tail(s))
            ELSE IF b >= 194 /\ b <= 223
              THEN Len(s) >= 2 /\ IsCont(s[2]) /\ is_utf8(Drop(s, 2))
            ELSE IF b >= 224 /\ b <= 239
              THEN /\ Len(s) >= 3
                   /\ IsCont(s[2])
                   /\ b = 224 => s[2] >= 160
                   /\ b = 237 => s[2] <= 159
                   /\ IsCont(s[3])
                   /\ is_utf8(Drop(s, 3))
            ELSE IF b >= 240 /\ b <= 244
              THEN /\ Len(s) >= 4
                   /\ IsCont(s[2])
                   /\ b = 240 => s[2] >= 144
                   /\ b = 244 => s[2] <= 143
                   /\ IsCont(s[3])
                   /\ IsCont(s[4])
                   /\ is_utf8(Drop(s, 4))
            ELSE FALSE

\* <&str as FixValue>::from_bytes
str_from_bytes(i) ==
    IF is_utf8(i) THEN FieldOk(i) ELSE FieldErr("String")

\* <&[u8] as FixValue>::from_bytes
bytes_from_bytes(i) == FieldOk(i)

\* buf.copy_from_slice(src) panics unless both slices have the same length
copy_from_slice(b, src) ==
    IF Len(b) # Len(src) THEN EncPanic(b) ELSE EncSome(Len(src), src)

\* <&str as FixValue>::to_bytes
str_to_bytes(self, b) ==
    IF Len(b) >= Len(self) THEN copy_from_slice(b, self) ELSE EncNone(b)

\* <&[u8] as FixValue>::to_bytes
bytes_to_bytes(self, b) ==
    IF Len(b) >= Len(self) THEN copy_from_slice(b, self) ELSE EncNone(b)

(***************************************************************************)
(* Inputs.                                                                 *)
(***************************************************************************)
\* all byte strings over S of length at most n
Strs(S, n) == UNION {[1..k -> S] : k \in 0..n}

\* a zeroed buffer of n bytes, as in the tests (&mut [0u8; n])
ZeroBuf(n) == [k \in 1..n |-> 0]

\* bytes of the inputs of atoi / u_atoi: the digits, '-' and '|'
DecBytes == DigitBytes \cup {Minus, Pipe}

\* bytes of the inputs of tagnum: digits that spell the u16 boundary, and '|'
TagnumBytes == {48, 51, 53, 54, Pipe}

\* tag texts in front of the inputs of the splitters
TagTexts == {<<>>, <<56>>, <<48>>, <<48, 56>>,
             <<54, 53, 53, 51, 53>>, <<54, 53, 53, 51, 54>>}

\* bytes of the tails that follow the tag text
RestBytes == {56, Equals, Pipe, SOH, LetterF}

\* the delimiters the splitters are built with
Delimiters == {Pipe, SOH, Equals}

\* bytes of the value slices of the integer fields
FieldBytes == {48, 49, 50, 51, 53, 55, Minus, Pipe, SOH}

\* bytes of the string and data values: 'a', 0x14, SOH and the two bytes of
\* a two-byte UTF-8 character
SliceBytes == {97, 20, SOH, 195, 169}

\* pieces of a buffer of several fields: "8=9|", "9=|", "35=|||", "08=9|"
\* and the single bytes '9', '=' and '|'
Pieces == {<<56, Equals, 57, Pipe>>, <<57, Equals, Pipe>>,
           <<51, 53, Equals, Pipe, Pipe, Pipe>>,
           <<48, 56, Equals, 57, Pipe>>,
           <<57>>, <<Equals>>, <<Pipe>>}

\* the buffers made of up to n pieces
RECURSIVE Buffers(_)
Buffers(n) ==
    IF n = 0 THEN {<<>>}
    ELSE LET B == Buffers(n - 1) IN B \cup {b \o q : b \in B, q \in Pieces}

NoEnc == [kind |-> "Unset", n |-> 0]

NoRes == ParseErr("Unset")

(***************************************************************************)
(* State machine: a caller encodes a value into a buffer and reads it      *)
(* back, or hands an input slice to one of the parsers.                    *)
(***************************************************************************)
InitCommon ==
    /\ enc_op = "none"
    /\ enc = NoEnc
    /\ op = "none"
    /\ delimiter = SOH
    /\ len = 0
    /\ res = NoRes
    /\ pos = 0
    /\ tags = <<>>

InitEnc ==
    /\ value \in I8.min..U8.max
    /\ buf \in {ZeroBuf(n) : n \in 0..MaxBuf}
    /\ overflow_checks \in BOOLEAN
    /\ input = <<>>
    /\ pc = "value"
    /\ InitCommon

InitInput(Inputs) ==
    /\ input \in Inputs
    /\ value = 0
    /\ buf = <<>>
    /\ overflow_checks \in BOOLEAN
    /\ InitCommon

InitDec == InitInput(Strs(DecBytes, MaxLen)) /\ pc = "input"

InitTagnum == InitInput(Strs(TagnumBytes, MaxTagLen)) /\ pc = "tagnum"

InitTag ==
    /\ InitInput({t \o r : t \in TagTexts, r \in Strs(RestBytes, MaxRest)})
    /\ pc = "tag"

InitField == InitInput(Strs(FieldBytes, MaxFieldLen)) /\ pc = "field"

\* an input of the older integer decoders or of the older splitters
InitOld ==
    \/ InitInput(Strs(DecBytes, MaxLen)) /\ pc = "old_input"
    \/ /\ InitInput({t \o r : t \in TagTexts, r \in Strs(RestBytes, MaxRest)})
       /\ pc = "old_tag"

\* a string or data value (held in input) and a zeroed buffer to write it to
InitSlice ==
    /\ input \in Strs(SliceBytes, MaxSliceLen)
    /\ value = 0
    /\ buf \in {ZeroBuf(n) : n \in 0..MaxBuf}
    /\ overflow_checks = FALSE
    /\ pc = "slice"
    /\ InitCommon

\* a buffer of fields with the custom delimiter '|', nothing split off yet
InitLoop ==
    /\ input \in Buffers(MaxPieces)
    /\ value = 0
    /\ buf = <<>>
    /\ overflow_checks \in BOOLEAN
    /\ pc = "split"
    /\ enc_op = "none"
    /\ enc = NoEnc
    /\ op = "none"
    /\ delimiter = Pipe
    /\ len = 0
    /\ res = NoRes
    /\ pos = 0
    /\ tags = <<>>

Itos ==
    /\ pc = "value"
    /\ value \in I8.min..I8.max
    /\ LET r == itos(value, buf, I8, overflow_checks)
       IN /\ enc' = [kind |-> r.kind, n |-> r.n]
          /\ buf' = r.buf
    /\ enc_op' = "itos"
    /\ pc' = "encoded"
    /\ UNCHANGED <<pos, tags, input, value, overflow_checks, op, delimiter, len, res>>

UItos ==
    /\ pc = "value"
    /\ value \in U8.min..U8.max
    /\ LET r == u_itos(value, buf, U8)
       IN /\ enc' = [kind |-> r.kind, n |-> r.n]
          /\ buf' = r.buf
    /\ enc_op' = "u_itos"
    /\ pc' = "encoded"
    /\ UNCHANGED <<pos, tags, input, value, overflow_checks, op, delimiter, len, res>>

\* the caller slices the written bytes, buf[..n]
ReadBack ==
    /\ pc = "encoded"
    /\ enc.kind = "Some"
    /\ input' = Take(buf, enc.n)
    /\ pc' = "input"
    /\ UNCHANGED <<pos, tags, value, buf, overflow_checks, enc_op, enc, op, delimiter, len, res>>

Atoi ==
    /\ pc = "input"
    /\ res' = atoi(input, I8)
    /\ op' = "atoi"
    /\ pc' = "done"
    /\ UNCHANGED <<pos, tags, input, value, buf, overflow_checks, enc_op, enc, delimiter, len>>

UAtoi ==
    /\ pc = "input"
    /\ res' = u_atoi(input, U8)
    /\ op' = "u_atoi"
    /\ pc' = "done"
    /\ UNCHANGED <<pos, tags, input, value, buf, overflow_checks, enc_op, enc, delimiter, len>>

Tagnum ==
    /\ pc = "tagnum"
    /\ res' = tagnum(input)
    /\ op' = "tagnum"
    /\ pc' = "done"
    /\ UNCHANGED <<pos, tags, input, value, buf, overflow_checks, enc_op, enc, delimiter, len>>

TagDelimited ==
    /\ pc = "tag"
    /\ \E d \in Delimiters :
          /\ delimiter' = d
          /\ res' = tag_delimited(d, input)
    /\ op' = "tag_delimited"
    /\ pc' = "done"
    /\ UNCHANGED <<pos, tags, input, value, buf, overflow_checks, enc_op, enc, len>>

DataTagDelimited ==
    /\ pc = "tag"
    /\ \E d \in Delimiters, n \in 0..MaxDataLen :
          /\ delimiter' = d
          /\ len' = n
          /\ res' = data_tag_delimited(d, n, input)
    /\ op' = "data_tag_delimited"
    /\ pc' = "done"
    /\ UNCHANGED <<pos, tags, input, value, buf, overflow_checks, enc_op, enc>>

IntFieldParse ==
    /\ pc = "field"
    /\ res' = IntField_parse(input)
    /\ op' = "IntField"
    /\ pc' = "done"
    /\ UNCHANGED <<pos, tags, input, value, buf, overflow_checks, enc_op, enc, delimiter, len>>

UnsignedIntFieldParse ==
    /\ pc = "field"
    /\ res' = UnsignedIntField_parse(input)
    /\ op' = "UnsignedIntField"
    /\ pc' = "done"
    /\ UNCHANGED <<pos, tags, input, value, buf, overflow_checks, enc_op, enc, delimiter, len>>

DayOfMonthFieldParse ==
    /\ pc = "field"
    /\ res' = DayOfMonthField_parse(input)
    /\ op' = "DayOfMonthField"
    /\ pc' = "done"
    /\ UNCHANGED <<pos, tags, input, value, buf, overflow_checks, enc_op, enc, delimiter, len>>

TagNumFieldParse ==
    /\ pc = "field"
    /\ res' = TagNumField_parse(input)
    /\ op' = "TagNumField"
    /\ pc' = "done"
    /\ UNCHANGED <<pos, tags, input, value, buf, overflow_checks, enc_op, enc, delimiter, len>>

StringFieldParse ==
    /\ pc = "slice"
    /\ res' = StringField_parse(input)
    /\ op' = "StringField"
    /\ pc' = "done"
    /\ UNCHANGED <<pos, tags, input, value, buf, overflow_checks, enc_op, enc, delimiter, len>>

DataFieldParse ==
    /\ pc = "slice"
    /\ res' = DataField_parse(input)
    /\ op' = "DataField"
    /\ pc' = "done"
    /\ UNCHANGED <<pos, tags, input, value, buf, overflow_checks, enc_op, enc, delimiter, len>>

StrFromBytes ==
    /\ pc = "slice"
    /\ res' = str_from_bytes(input)
    /\ op' = "str_from_bytes"
    /\ pc' = "done"
    /\ UNCHANGED <<pos, tags, input, value, buf, overflow_checks, enc_op, enc, delimiter, len>>

BytesFromBytes ==
    /\ pc = "slice"
    /\ res' = bytes_from_bytes(input)
    /\ op' = "bytes_from_bytes"
    /\ pc' = "done"
    /\ UNCHANGED <<pos, tags, input, value, buf, overflow_checks, enc_op, enc, delimiter, len>>

\* self is a &str, so its bytes are well-formed UTF-8
StrToBytes ==
    /\ pc = "slice"
    /\ is_utf8(input)
    /\ LET r == str_to_bytes(input, buf)
       IN /\ enc' = [kind |-> r.kind, n |-> r.n]
          /\ buf' = r.buf
    /\ enc_op' = "str_to_bytes"
    /\ pc' = "done"
    /\ UNCHANGED <<pos, tags, input, value, overflow_checks, op, delimiter, len, res>>

BytesToBytes ==
    /\ pc = "slice"
    /\ LET r == bytes_to_bytes(input, buf)
       IN /\ enc' = [kind |-> r.kind, n |-> r.n]
          /\ buf' = r.buf
    /\ enc_op' = "bytes_to_bytes"
    /\ pc' = "done"
    /\ UNCHANGED <<pos, tags, input, value, overflow_checks, op, delimiter, len, res>>

ParsersAtoi ==
    /\ pc = "old_input"
    /\ res' = parsers_atoi(input, I8)
    /\ op' = "parsers::atoi"
    /\ pc' = "done"
    /\ UNCHANGED <<pos, tags, input, value, buf, overflow_checks, enc_op, enc, delimiter, len>>

ParsersUAtoi ==
    /\ pc = "old_input"
    /\ res' = parsers_u_atoi(input, U8)
    /\ op' = "parsers::u_atoi"
    /\ pc' = "done"
    /\ UNCHANGED <<pos, tags, input, value, buf, overflow_checks, enc_op, enc, delimiter, len>>

Delimited ==
    /\ pc = "old_tag"
    /\ \E d \in Delimiters :
          /\ delimiter' = d
          /\ res' = delimited(d, input)
    /\ op' = "delimited"
    /\ pc' = "done"
    /\ UNCHANGED <<pos, tags, input, value, buf, overflow_checks, enc_op, enc, len>>

DataDelimited ==
    /\ pc = "old_tag"
    /\ \E d \in Delimiters, n \in 0..MaxDataLen :
          /\ delimiter' = d
          /\ len' = n
          /\ res' = data_delimited(n, d, input)
    /\ op' = "data_delimited"
    /\ pc' = "done"
    /\ UNCHANGED <<pos, tags, input, value, buf, overflow_checks, enc_op, enc>>

\* what a split leaves the caller with: on success the tag is recorded and
\* the remaining input becomes the next input, on failure the caller stops
SplitResult(r) ==
    /\ res' = r
    /\ IF r.ok
         THEN /\ pos' = Len(input) - Len(r.rest)
              /\ tags' = Append(tags, r.val.tag)
              /\ pc' = "split"
         ELSE /\ pc' = "done"
              /\ UNCHANGED <<pos, tags>>

\* the remaining input is split with tag_delimited
SplitTag ==
    /\ pc = "split"
    /\ Drop(input, pos) # <<>>
    /\ SplitResult(tag_delimited(delimiter, Drop(input, pos)))
    /\ op' = "tag_delimited"
    /\ UNCHANGED <<input, value, buf, overflow_checks, enc_op, enc, delimiter, len>>

\* the remaining input is split with data_tag_delimited
SplitData ==
    /\ pc = "split"
    /\ Drop(input, pos) # <<>>
    /\ \E n \in 0..MaxDataLen :
          /\ len' = n
          /\ SplitResult(data_tag_delimited(delimiter, n, Drop(input, pos)))
    /\ op' = "data_tag_delimited"
    /\ UNCHANGED <<input, value, buf, overflow_checks, enc_op, enc, delimiter>>

\* nothing remains
SplitEnd ==
    /\ pc = "split"
    /\ Drop(input, pos) = <<>>
    /\ pc' = "done"
    /\ UNCHANGED <<pos, tags, input, value, buf, overflow_checks, enc_op, enc, op,
                   delimiter, len, res>>

NextEnc == Itos \/ UItos \/ ReadBack \/ Atoi \/ UAtoi

NextDec == Atoi \/ UAtoi

NextTagnum == Tagnum

NextTag == TagDelimited \/ DataTagDelimited

NextField ==
    IntFieldParse \/ UnsignedIntFieldParse \/ DayOfMonthFieldParse \/ TagNumFieldParse

NextSlice ==
    \/ StringFieldParse \/ DataFieldParse \/ StrFromBytes \/ BytesFromBytes
    \/ StrToBytes \/ BytesToBytes

SpecEnc == InitEnc /\ [][NextEnc]_vars

SpecDec == InitDec /\ [][NextDec]_vars

SpecTagnum == InitTagnum /\ [][NextTagnum]_vars

SpecTag == InitTag /\ [][NextTag]_vars

SpecField == InitField /\ [][NextField]_vars

SpecSlice == InitSlice /\ [][NextSlice]_vars

NextOld == ParsersAtoi \/ ParsersUAtoi \/ Delimited \/ DataDelimited

SpecOld == InitOld /\ [][NextOld]_vars

NextLoop == SplitTag \/ SplitData \/ SplitEnd

\* there is input left to split: ENABLED <<SplitTag \/ SplitData>>_vars
CanSplit == pc = "split" /\ Drop(input, pos) # <<>>

\* the caller keeps going while it can: weak fairness of SplitEnd and of the
\* two split steps, the latter with its enabling condition written out
SpecLoop ==
    /\ InitLoop
    /\ [][NextLoop]_vars
    /\ WF_vars(SplitEnd)
    /\ ([]<>~CanSplit \/ []<><<SplitTag \/ SplitData>>_vars)

\* every decoder of wire_format.rs and data_types/int.rs on its inputs
Init == InitDec \/ InitTagnum \/ InitTag \/ InitField

Next == NextDec \/ NextTagnum \/ NextTag \/ NextField

Spec == Init /\ [][Next]_vars

(***************************************************************************)
(* Reference notions the properties are stated with.                       *)
(***************************************************************************)
\* canonical decimal text of an integer
DecText(v) == IF v < 0 THEN <<Minus>> \o NatText(-v) ELSE NatText(v)

\* mathematical value of a string of digits
RECURSIVE DecValue(_)
DecValue(ds) ==
    IF ds = <<>> THEN 0
    ELSE 10 * DecValue(Take(ds, Len(ds) - 1)) + (ds[Len(ds)] - 48)

\* length of the maximal leading run of ASCII digits of s
RunLen(s) ==
    CHOOSE n \in 0..Len(s) :
        /\ \A k \in 1..n : is_digit(s[k])
        /\ n = Len(s) \/ ~is_digit(s[n + 1])

Run(s) == Take(s, RunLen(s))

HasSign(s) == s # <<>> /\ s[1] = Minus

\* the input without its leading '-', if it has one
Unsigned(s) == IF HasSign(s) THEN Tail(s) ELSE s

Zeros(k) == [j \in 1..k |-> 48]

InRange(v, T) == v >= T.min /\ v <= T.max

\* two parse outcomes agree: same value and remaining input, or both errors
SameOutcome(r1, r2) ==
    /\ r1.ok = r2.ok
    /\ r1.ok => (r1.val = r2.val /\ r1.rest = r2.rest)

(***************************************************************************)
(* Properties of the encoders (SpecEnc).                                   *)
(***************************************************************************)
\* the buffer has room for the decimal text of the value
Fits == Len(buf) >= Len(DecText(value))

\* C1: signed round trip.  For every i8 value and a buffer large enough for
\* its decimal text, itos returns Some(n), and atoi of buf[..n] returns the
\* value with empty remaining input.
C1_SignedRoundTrip ==
    /\ (pc = "encoded" /\ enc_op = "itos" /\ Fits) => enc.kind = "Some"
    /\ (pc = "done" /\ enc_op = "itos" /\ op = "atoi" /\ Fits)
          => (res.ok /\ res.val = value /\ res.rest = <<>>)

\* C2: unsigned round trip.  For every u8 value and a buffer at least as long
\* as its decimal text, u_itos returns Some(n), and u_atoi of buf[..n] returns
\* the value with empty remaining input.
C2_UnsignedRoundTrip ==
    /\ (pc = "encoded" /\ enc_op = "u_itos" /\ Fits) => enc.kind = "Some"
    /\ (pc = "done" /\ enc_op = "u_itos" /\ op = "u_atoi" /\ Fits)
          => (res.ok /\ res.val = value /\ res.rest = <<>>)

\* C2 witness: 255 written into a buffer of exactly three bytes, read back
C2_Witness ==
    /\ pc = "done" /\ enc_op = "u_itos" /\ op = "u_atoi"
    /\ value = 255 /\ Len(buf) = 3
    /\ res.ok /\ res.val = 255

\* C3: insufficient capacity is reported as None.  Whenever the buffer is
\* shorter than the canonical decimal text of the value, itos and u_itos
\* return None (they do not panic).
C3_ShortBufferIsNone ==
    (pc = "encoded" /\ ~Fits) => enc.kind = "None"

\* C4: canonical encoding.  Whenever itos or u_itos returns Some(n), buf[..n]
\* is the minimal-width decimal text of the value: n is its length, there is
\* no leading zero, zero is the single byte "0", and there is one leading '-'
\* exactly when the value is negative.
C4_CanonicalEncoding ==
    (pc = "encoded" /\ enc.kind = "Some") =>
        LET text == Take(buf, enc.n)
            digits == Unsigned(text)
        IN /\ enc.n = Len(DecText(value))
           /\ enc.n <= Len(buf)
           /\ text = DecText(value)
           /\ HasSign(text) <=> value < 0
           /\ digits # <<>>
           /\ \A k \in 1..Len(digits) : is_digit(digits[k])
           /\ DecValue(digits) = (IF value < 0 THEN -value ELSE value)
           /\ digits[1] = 48 => (value = 0 /\ text = <<48>>)

\* C4 witness: itos has written a negative three-digit value
C4_Witness ==
    /\ pc = "encoded" /\ enc_op = "itos" /\ enc.kind = "Some"
    /\ value = -127 /\ Take(buf, enc.n) = <<45, 49, 50, 55>>

(***************************************************************************)
(* Properties of the decoders (SpecDec, SpecTagnum).                       *)
(***************************************************************************)
\* the exact value a signed input spells: its digit run, negated under '-'
SignedValue(s) ==
    IF HasSign(s) THEN -DecValue(Run(Tail(s))) ELSE DecValue(Run(s))

\* C5: overflow detection.  On a non-empty digit run (after an optional '-'
\* for atoi) u_atoi and atoi succeed exactly when the mathematical value lies
\* in the range of the target type, and then return that value; no result is
\* produced by wraparound.
C5_OverflowDetection ==
    /\ (pc = "done" /\ op = "u_atoi" /\ RunLen(input) > 0) =>
          /\ res.ok <=> InRange(DecValue(Run(input)), U8)
          /\ res.ok => res.val = DecValue(Run(input))
    /\ (pc = "done" /\ op = "atoi" /\ RunLen(Unsigned(input)) > 0) =>
          /\ res.ok <=> InRange(SignedValue(input), I8)
          /\ res.ok => res.val = SignedValue(input)

\* C5 witness: atoi has decoded the most negative i8 value
C5_Witness ==
    /\ pc = "done" /\ op = "atoi" /\ input = <<45, 49, 50, 56>>
    /\ res.ok /\ res.val = -128

\* C6: leading-zero tolerance.  For an input that starts with a digit, u_atoi
\* of k '0' bytes followed by the input has the same outcome as u_atoi of the
\* input; for an input that starts with '-' and a digit, atoi with k '0' bytes
\* put after the '-' has the same outcome as atoi of the input.
C6_LeadingZeros ==
    /\ (pc = "done" /\ op = "u_atoi" /\ RunLen(input) > 0) =>
          \A k \in 0..MaxZeros :
              SameOutcome(u_atoi(Zeros(k) \o input, U8), res)
    /\ (pc = "done" /\ op = "atoi" /\ HasSign(input) /\ RunLen(Tail(input)) > 0) =>
          \A k \in 0..MaxZeros :
              SameOutcome(atoi(<<Minus>> \o Zeros(k) \o Tail(input), I8), res)

\* C6 witness: u_atoi has decoded "0023" as 23
C6_Witness ==
    /\ pc = "done" /\ op = "u_atoi" /\ input = <<48, 48, 50, 51>>
    /\ res.ok /\ res.val = 23

\* C7: digit-run consumption.  When u_atoi succeeds the remaining input is
\* the input after its maximal leading digit run; atoi first drops at most one
\* leading '-'.  Both fail when the digit run is empty.
C7_DigitRunConsumption ==
    /\ (pc = "done" /\ op = "u_atoi") =>
          /\ res.ok => res.rest = Drop(input, RunLen(input))
          /\ RunLen(input) = 0 => ~res.ok
    /\ (pc = "done" /\ op = "atoi") =>
          /\ res.ok => res.rest = Drop(Unsigned(input), RunLen(Unsigned(input)))
          /\ RunLen(Unsigned(input)) = 0 => ~res.ok

\* C7 witness: atoi of "-1|2" leaves "|2"
C7_Witness ==
    /\ pc = "done" /\ op = "atoi" /\ input = <<45, 49, 124, 50>>
    /\ res.ok /\ res.val = -1 /\ res.rest = <<124, 50>>

\* C8: tag-number strictness.  tagnum fails on every input whose first byte is
\* '0' and on a digit run whose value exceeds 65535; on a digit run with no
\* leading zero and value in 1..65535 it succeeds with that value; tag 0 is
\* never produced.
C8_TagnumStrictness ==
    (pc = "done" /\ op = "tagnum") =>
        /\ (input # <<>> /\ input[1] = 48) => ~res.ok
        /\ DecValue(Run(input)) > 65535 => ~res.ok
        /\ (RunLen(input) > 0 /\ input[1] # 48 /\ DecValue(Run(input)) \in 1..65535) =>
              (res.ok /\ res.val = DecValue(Run(input))
                 /\ res.rest = Drop(input, RunLen(input)))
        /\ res.ok => res.val # 0

\* C8 witness: tagnum has accepted "6350|", a tag with a zero after the first digit
C8_Witness ==
    /\ pc = "done" /\ op = "tagnum" /\ input = <<54, 51, 53, 48, 124>>
    /\ res.ok /\ res.val = 6350 /\ res.rest = <<124>>

(***************************************************************************)
(* Properties of the splitters (SpecTag).                                  *)
(***************************************************************************)
\* bytes 1..a-1 of i are a valid tag number and byte a is '='
TagAt(i, a) ==
    /\ a \in 2..Len(i)
    /\ i[a] = Equals
    /\ \A k \in 1..(a - 1) : is_digit(i[k])
    /\ i[1] # 48
    /\ DecValue(Take(i, a - 1)) <= 65535

\* i = T '=' V d R with '=' at index a and the terminating d at index b
TagForm(i, d, a, b) ==
    /\ TagAt(i, a)
    /\ b \in (a + 2)..Len(i)
    /\ i[b] = d
    /\ \A k \in (a + 1)..(b - 1) : i[k] # d

\* i = T '=' V d R with '=' at index a and V the next n bytes
DataForm(i, d, n, a) ==
    /\ TagAt(i, a)
    /\ a + n + 1 <= Len(i)
    /\ i[a + n + 1] = d

\* what a splitter returns for '=' at index a and the terminating d at index b
Split(i, a, b) ==
    ParseOk(Drop(i, b), RawTag(DecValue(Take(i, a - 1)), SubSeq(i, a + 1, b - 1)))

\* C9: tag_delimited(d) succeeds exactly on inputs of the form T '=' V d R
\* with T a valid tag number, V non-empty and free of d; it then returns
\* RawTag{tag: value of T, value: V} and remaining R.
C9_TagDelimited ==
    (pc = "done" /\ op = "tag_delimited") =>
        LET forms == {p \in (1..Len(input)) \X (1..Len(input)) :
                         TagForm(input, delimiter, p[1], p[2])}
        IN /\ res.ok <=> forms # {}
           /\ \A p \in forms : res = Split(input, p[1], p[2])

\* C9 witness: "8=F|8" split at '|'
C9_Witness ==
    /\ pc = "done" /\ op = "tag_delimited" /\ delimiter = Pipe
    /\ input = <<56, 61, 70, 124, 56>>
    /\ res = ParseOk(<<56>>, RawTag(8, <<70>>))

\* C10: data_tag_delimited(d, len) succeeds exactly on inputs of the form
\* T '=' V d R with T a valid tag number, V the len bytes after '=' taken
\* verbatim, and d right after V; it then returns RawTag{tag, value: V} and
\* remaining R.
C10_DataTagExact ==
    (pc = "done" /\ op = "data_tag_delimited") =>
        LET forms == {a \in 1..Len(input) : DataForm(input, delimiter, len, a)}
        IN /\ res.ok <=> forms # {}
           /\ \A a \in forms : res = Split(input, a, a + len + 1)

\* C10 witness: "8=|F|" read with len 2 keeps the delimiter inside the value
C10_Witness ==
    /\ pc = "done" /\ op = "data_tag_delimited" /\ delimiter = Pipe /\ len = 2
    /\ input = <<56, 61, 124, 70, 124>>
    /\ res = ParseOk(<<>>, RawTag(8, <<124, 70>>))

(***************************************************************************)
(* Properties of the typed integer fields (SpecField).                     *)
(***************************************************************************)
IntFieldOps == {"IntField", "UnsignedIntField", "DayOfMonthField", "TagNumField"}

\* what the integer rule of the field reads digits from
FieldBody(o, s) == IF o = "IntField" THEN Unsigned(s) ELSE s

\* C11: full consumption.  IntField, UnsignedIntField, DayOfMonthField and
\* TagNumField parse succeed only when the integer rule consumes the whole
\* input; an input with a byte after the digit run is an error, never a
\* partial success.
C11_FullConsumption ==
    (pc = "done" /\ op \in IntFieldOps) =>
        LET body == FieldBody(op, input)
        IN /\ RunLen(body) < Len(body) => IsErr(res)
           /\ res.ok => (body # <<>> /\ RunLen(body) = Len(body))

\* C11 witness: IntField has rejected "-12|"
C11_Witness ==
    /\ pc = "done" /\ op = "IntField" /\ input = <<45, 49, 50, 124>>
    /\ IsErr(res)

\* C12: DayOfMonthField::parse succeeds exactly when the input is a non-empty
\* run of digits whose value is in 1..31 (leading zeros allowed) and returns
\* that value; every other input is an error, and no value is clamped.
C12_DayOfMonth ==
    (pc = "done" /\ op = "DayOfMonthField") =>
        LET good == /\ input # <<>>
                    /\ RunLen(input) = Len(input)
                    /\ DecValue(input) \in 1..31
        IN /\ res.ok <=> good
           /\ res.ok => res.val = DecValue(input)
           /\ ~good => IsErr(res)

\* C12 witness: DayOfMonthField has read "031" as 31
C12_Witness ==
    /\ pc = "done" /\ op = "DayOfMonthField" /\ input = <<48, 51, 49>>
    /\ res.ok /\ res.val = 31

(***************************************************************************)
(* Properties of the string and data values (SpecSlice).                   *)
(***************************************************************************)
Contains(s, b) == \E k \in 1..Len(s) : s[k] = b

\* C13: string field decode rejects the delimiter.  Decoding a string value
\* returns the input unchanged when it is non-empty and holds no SOH byte,
\* and returns an error (not a panic) when it holds an SOH byte or is empty.
C13_StringRejectsDelimiter ==
    (pc = "done" /\ op \in {"StringField", "str_from_bytes"} /\ is_utf8(input)) =>
        LET good == input # <<>> /\ ~Contains(input, SOH)
        IN /\ good => (res.ok /\ res.val = input)
           /\ ~good => IsErr(res)

\* C14: data field decode is a pass-through.  Decoding a data value returns
\* the input byte for byte for every non-empty input, SOH bytes included, and
\* returns an error for the empty input.
C14_DataPassThrough ==
    (pc = "done" /\ op \in {"DataField", "bytes_from_bytes"}) =>
        /\ input # <<>> => (res.ok /\ res.val = input)
        /\ input = <<>> => IsErr(res)

\* C15: string and byte-slice serialization.  For a value of length L and a
\* buffer of length at least L, to_bytes returns Some(L) with buf[..L] equal
\* to the value and does not panic; for a shorter buffer it returns None.
C15_SliceToBytes ==
    (pc = "done" /\ enc_op \in {"str_to_bytes", "bytes_to_bytes"}) =>
        IF Len(buf) >= Len(input)
          THEN /\ enc.kind = "Some"
               /\ enc.n = Len(input)
               /\ Take(buf, Len(input)) = input
          ELSE enc.kind = "None"

(***************************************************************************)
(* Properties of all decoders together (Spec).                             *)
(***************************************************************************)
DecoderOps ==
    {"atoi", "u_atoi", "tagnum", "tag_delimited", "data_tag_delimited"}
        \cup IntFieldOps

\* C16: no panic on malformed input.  For every byte sequence, delimiter and
\* length argument, atoi, u_atoi, tagnum, tag_delimited, data_tag_delimited
\* and the integer field parsers return a success value or an error value,
\* with or without overflow checks; none of them panics.
C16_NoPanic ==
    (pc = "done" /\ op \in DecoderOps) => (res.ok \/ IsErr(res))

\* the empty input, on which byte('-') has no first byte to look at
C16_Witness ==
    pc = "done" /\ op = "atoi" /\ input = <<>> /\ overflow_checks /\ IsErr(res)

FieldType(o) ==
    IF o = "IntField" THEN I64
    ELSE IF o = "UnsignedIntField" THEN U64
    ELSE IF o = "DayOfMonthField" THEN U8
    ELSE U16

FieldParse(o, s) ==
    IF o = "IntField" THEN IntField_parse(s)
    ELSE IF o = "UnsignedIntField" THEN UnsignedIntField_parse(s)
    ELSE IF o = "DayOfMonthField" THEN DayOfMonthField_parse(s)
    ELSE TagNumField_parse(s)

\* the first rule of the field o that the value s breaks, "None" if it
\* breaks none
FailedRule(o, s) ==
    LET body == FieldBody(o, s)
        v == DecValue(Run(body))
    IN IF RunLen(body) = 0 THEN "NoDigits"
       ELSE IF o = "TagNumField" /\ body[1] = 48 THEN "InvalidTagNumber"
       ELSE IF ~InRange(v, FieldType(o)) THEN "Overflow"
       ELSE IF o = "DayOfMonthField" /\ ~(v >= 1 /\ v <= 31) THEN "OutOfRange"
       ELSE IF RunLen(body) < Len(body) THEN "UnconsumedInput"
       ELSE "None"

\* one value for each rule: "", "257", "32", "1|", "01"
RuleProbes == {<<>>, <<50, 53, 55>>, <<51, 50>>, <<49, Pipe>>, <<48, 49>>}

\* C17: error precision.  A failed decode reports which rule failed: no
\* digits, overflow, out-of-range day of month, unconsumed trailing input and
\* invalid tag number yield different error kinds, so two values that break
\* different rules of the same field never fail with the same kind.
C17_ErrorPrecision ==
    (pc = "done" /\ op \in IntFieldOps /\ IsErr(res)) =>
        \A j \in RuleProbes :
            LET r == FieldParse(op, j)
            IN (IsErr(r) /\ FailedRule(op, j) # FailedRule(op, input))
                   => r.kind # res.kind

(***************************************************************************)
(* Properties of repeated splitting (SpecLoop).                            *)
(***************************************************************************)
\* a successful split of the remaining input I (the only step after which
\* the caller goes on splitting): the result with remaining R
\* satisfies I = tag text, '=', value, delimiter, R with R shorter than I, and
\* the caller records the tag after the ones before it and moves on to R
SplitStep ==
    (pc = "split" /\ pc' = "split") =>
        LET I == Drop(input, pos)
            R == res'.rest
        IN /\ Len(R) < Len(I)
           /\ R = Drop(I, Len(I) - Len(R))
           /\ I = NatText(res'.val.tag) \o <<Equals>> \o res'.val.value
                      \o <<delimiter>> \o R
           /\ pos' > pos
           /\ Drop(input, pos') = R
           /\ tags' = Append(tags, res'.val.tag)

\* C18: splitting makes progress and loses nothing.  Whenever tag_delimited or
\* data_tag_delimited succeeds on input I with remaining R, R is a proper
\* suffix of I and I is the canonical decimal text of the tag, '=', the
\* value, the delimiter and R; so a loop that keeps splitting the remaining
\* input of a finite buffer ends, and the tags come out in buffer order.
C18_SplitProgress == [][SplitStep]_vars /\ <>(pc = "done")

\* "8=9|9=|" split into tag 8 and, as data of length 0, tag 9
C18_Witness ==
    /\ pc = "done"
    /\ input = <<56, Equals, 57, Pipe, 57, Equals, Pipe>>
    /\ tags = <<8, 9>>
    /\ pos = 7

(***************************************************************************)
(* Properties of the older decoders (SpecOld).                             *)
(***************************************************************************)
\* the input starts with a digit run (after the sign, for the signed
\* decoder) whose value does not fit the type of the decoder
OverWidth ==
    IF op = "parsers::atoi"
      THEN RunLen(Unsigned(input)) > 0 /\ ~InRange(SignedValue(input), I8)
    ELSE IF op = "parsers::u_atoi"
      THEN RunLen(input) > 0 /\ ~InRange(DecValue(Run(input)), U8)
    ELSE RunLen(input) > 0 /\ ~InRange(DecValue(Run(input)), U16)

\* C19: no silent wraparound in the older decoders.  parsers.rs atoi and
\* u_atoi and wire_parser.rs atoi (the tag number of delimited and
\* data_delimited) report a digit run whose value exceeds the target width as
\* an error; they neither wrap nor panic.
C19_NoSilentWraparound ==
    (/\ pc = "done"
     /\ op \in {"parsers::atoi", "parsers::u_atoi", "delimited", "data_delimited"}
     /\ OverWidth)
        => IsErr(res)

====
